---- MODULE Spec2Model ----
(***************************************************************************)
(* A model of the task store (services/google_sheets.py), the cached read  *)
(* path and the page handlers that drive them (pages/*.py).                *)
(*                                                                         *)
(* The worksheet is a sequence of rows of cell texts, row 1 being the      *)
(* header row.  A Python dict is a function from a set of keys; a raised   *)
(* exception is the field raised of a call's outcome.                      *)
(***************************************************************************)
EXTENDS Integers, Sequences, FiniteSets, TLC

VARIABLES
    sheet,      \* the worksheet: get_all_values(), row 1 is the header row
    last,       \* the last direct service call: its arguments and its outcome
    nops,       \* number of direct service calls made so far
    cache,      \* the st.cache_data entry of get_cached_tasks
    clock,      \* seconds since the start
    board,      \* all_tasks of the last run of the Sprint Board page
    run,        \* the last run of a page: its inputs, its calls, what it showed
    writers,    \* the sessions inside create_task: where each is, what it read
    job,        \* the analysis of an uploaded video or document, step by step
    gdrive,     \* the folders of the Drive and the last organize_by_date call
    session     \* st.session_state of the browser session

vars == <<sheet, last, nops, cache, clock, board, run, writers, job, gdrive,
         session>>

svcVars == <<last, nops>>

appVars == <<cache, clock, board, run>>

\* the state of the processes that run beside the single session
envVars == <<writers, job, gdrive, session>>

----------------------------------------------------------------------------
(* Bounds of the model *)

\* rows of the worksheet grid, header row included
GridRows == 3

\* direct service calls explored from the initial state
MaxOps == 3

\* steps of the clock explored
MaxTicks == 2

\* tasks on the Sprint Board
MaxBoardTasks == 1

----------------------------------------------------------------------------
(* config.py *)

TASK_STATUSES == <<"In Review", "Passed In Review", "In Stage", "Passed In Stage", "Done">>

SHEETS_HEADERS ==
    <<"Task ID", "Task Name", "Upload Date", "Status", "File Type",
      "Evidence Link", "AI Summary", "Context Notes">>

ALLOWED_FILE_TYPES ==
    [video |-> {".mp4", ".mov"}, document |-> {".pdf"},
     spreadsheet |-> {".xlsx", ".csv"}, image |-> {".png", ".jpg", ".jpeg"}]

ALLOWED_EXTENSIONS == UNION {ALLOWED_FILE_TYPES[c] : c \in DOMAIN ALLOWED_FILE_TYPES}

MAX_FILE_SIZE_MB == 100

----------------------------------------------------------------------------
(* Python helpers *)

Range(s) == {s[i] : i \in DOMAIN s}

\* d.get(k, default)
Get(d, k, default) == IF k \in DOMAIN d THEN d[k] ELSE default

\* list.index(x) + 1: the 1-based position of the first x in s
IndexOf(s, x) == CHOOSE i \in DOMAIN s : s[i] = x /\ \A j \in 1..(i - 1) : s[j] # x

EmptyDict == [k \in {} |-> ""]

\* str(n) for the row numbers of the model
StrOfInt(n) == <<"0", "1", "2", "3", "4", "5", "6", "7", "8", "9">>[n + 1]

IntLiterals == {StrOfInt(n) : n \in 0..9} \cup {"-1"}

\* int(s): defined on the integer literals, raises ValueError elsewhere
IsInt(s) == s \in IntLiterals

IntOfStr(s) == IF s = "-1" THEN -1 ELSE CHOOSE n \in 0..9 : StrOfInt(n) = s

\* datetime.now().strftime('%Y-%m-%d %H:%M:%S') at the time of the call
NowStr == "2024-02-01 09:30:00"

----------------------------------------------------------------------------
(* The worksheet, as gspread shows it *)

BlankRow == [c \in 1..Len(SHEETS_HEADERS) |-> ""]

IsBlank(row) == \A c \in DOMAIN row : row[c] = ""

\* get_all_values() ends at the last row that holds a value
RECURSIVE Trim(_)
Trim(rows) ==
    IF rows # <<>> /\ IsBlank(rows[Len(rows)])
    THEN Trim(SubSeq(rows, 1, Len(rows) - 1))
    ELSE rows

\* worksheet.update_cell(row, col, value) is refused outside the grid
CellInGrid(r, c) == r >= 1 /\ c >= 1 /\ r <= GridRows

\* worksheet.update_cell(row, col, value) on a cell of the grid
UpdateCell(rows, r, c, v) ==
    LET padded == [i \in 1..(IF r > Len(rows) THEN r ELSE Len(rows)) |->
                       IF i <= Len(rows) THEN rows[i] ELSE BlankRow]
    IN  Trim([padded EXCEPT ![r][c] = v])

\* worksheet.append_row(row): the row after the last row of the table
AppendRow(rows, row) == Append(rows, row)

\* worksheet.get_all_records(): one dict per row below the header row, keyed
\* by the header row's cells; a header row with a repeated cell is refused
HeaderOk(rows) ==
    /\ rows # <<>>
    /\ \A i, j \in DOMAIN rows[1] : rows[1][i] = rows[1][j] => i = j

RecordOf(header, row) == [h \in Range(header) |-> row[IndexOf(header, h)]]

GetAllRecords(rows) == [i \in 1..(Len(rows) - 1) |-> RecordOf(rows[1], rows[i + 1])]

\* GoogleSheetsService.get_all_tasks: the records, or [] when the read raises
\* (readFails: the request to the sheet fails)
get_all_tasks(rows, readFails) ==
    IF readFails \/ ~HeaderOk(rows) THEN <<>> ELSE GetAllRecords(rows)

----------------------------------------------------------------------------
(* Outcomes of a service call *)

\* what a call leaves behind: the worksheet, the returned value, whether an
\* exception left the method, and the write requests it sent to the sheet
Outcome(rows, ret, raised, writes) ==
    [sheet |-> rows, ret |-> ret, raised |-> raised, writes |-> writes]

NoCall ==
    [op |-> "none", task_id |-> "", task_data |-> EmptyDict, new_status |-> "",
     updates |-> <<>>, ret |-> "", raised |-> FALSE, writes |-> 0]

----------------------------------------------------------------------------
(* GoogleSheetsService.create_task *)

\* the row create_task builds from task_data, in the order of SHEETS_HEADERS
TaskRow(task_id, task_data) ==
    <<StrOfInt(task_id),
      Get(task_data, "task_name", "Untitled Task"),
      Get(task_data, "upload_date", NowStr),
      Get(task_data, "status", "In Review"),
      Get(task_data, "file_type", ""),
      Get(task_data, "evidence_link", ""),
      Get(task_data, "ai_summary", ""),
      Get(task_data, "context_notes", "")>>

\* failAt: which of the call's requests to the sheet fails (0: none)
create_task(rows, task_data, failAt) ==
    LET task_id == Len(rows)
    IN  IF failAt = 1
        THEN \* get_all_values raises: logged and raised again
             Outcome(rows, "", TRUE, 0)
        ELSE IF failAt = 2
        THEN \* append_row raises: logged and raised again
             Outcome(rows, "", TRUE, 1)
        ELSE Outcome(AppendRow(rows, TaskRow(task_id, task_data)), StrOfInt(task_id), FALSE, 1)

\* create_task in its two requests to the sheet, for sessions that run it at
\* the same time: get_all_values and the id computed from it, then append_row
Writers == 1..2

IdleWriter == [pc |-> "idle", task_id |-> 0, task_data |-> EmptyDict, row |-> 0]

\* task_id = len(all_values)
ReadRowCount(rows) == Len(rows)

\* an append that takes the id from the row count at the time of the append
AppendRecountsId(rows, task_id, task_data) ==
    AppendRow(rows, TaskRow(Len(rows), task_data))

\* the row built with the id read before, appended below the last row
AppendTaskRow(rows, task_id, task_data) ==
    AppendRow(rows, TaskRow(task_id, task_data))

WriterRead(w, task_data) ==
    /\ writers[w].pc = "idle"
    /\ Len(sheet) < GridRows
    /\ writers' = [writers EXCEPT ![w] = [pc |-> "read", task_id |-> ReadRowCount(sheet),
                                          task_data |-> task_data, row |-> 0]]
    /\ UNCHANGED <<sheet, svcVars, appVars, job, gdrive, session>>

WriterAppend(w) ==
    /\ writers[w].pc = "read"
    /\ Len(sheet) < GridRows
    /\ sheet' = AppendTaskRow(sheet, writers[w].task_id, writers[w].task_data)
    /\ writers' = [writers EXCEPT ![w].pc = "idle", ![w].row = Len(sheet) + 1]
    /\ UNCHANGED <<svcVars, appVars, job, gdrive, session>>

----------------------------------------------------------------------------
(* GoogleSheetsService.update_task_status *)

\* update_task_status without its check of new_status
StatusNotChecked(new_status) == TRUE

StatusIsValid(new_status) == new_status \in Range(TASK_STATUSES)

\* update_task_status as a pipeline would have it: a Done task stays Done
DoneIsTerminal(rows, task_id, new_status, failAt) ==
    LET row_num == IntOfStr(task_id) + 1
        col     == IndexOf(SHEETS_HEADERS, "Status")
    IN  IF ~StatusIsValid(new_status) \/ ~IsInt(task_id)
        THEN Outcome(rows, "False", FALSE, 0)
        ELSE IF failAt = 1 \/ ~CellInGrid(row_num, col)
        THEN Outcome(rows, "False", FALSE, 1)
        ELSE IF row_num <= Len(rows) /\ rows[row_num][col] = "Done"
        THEN Outcome(rows, "False", FALSE, 0)
        ELSE Outcome(UpdateCell(rows, row_num, col, new_status), "True", FALSE, 1)

\* update_task_status without the offset for the header row
StatusRowNoOffset(rows, task_id, new_status, failAt) ==
    LET row_num == IntOfStr(task_id)
        col     == IndexOf(SHEETS_HEADERS, "Status")
    IN  IF ~StatusIsValid(new_status) \/ ~IsInt(task_id)
        THEN Outcome(rows, "False", FALSE, 0)
        ELSE IF failAt = 1 \/ ~CellInGrid(row_num, col)
        THEN Outcome(rows, "False", FALSE, 1)
        ELSE Outcome(UpdateCell(rows, row_num, col, new_status), "True", FALSE, 1)

update_task_status(rows, task_id, new_status, failAt) ==
    LET row_num == IntOfStr(task_id) + 1
        col     == IndexOf(SHEETS_HEADERS, "Status")
    IN  IF ~StatusIsValid(new_status) \/ ~IsInt(task_id)
        THEN \* ValueError, caught: return False
             Outcome(rows, "False", FALSE, 0)
        ELSE IF failAt = 1 \/ ~CellInGrid(row_num, col)
        THEN \* update_cell raises, caught: return False
             Outcome(rows, "False", FALSE, 1)
        ELSE Outcome(UpdateCell(rows, row_num, col, new_status), "True", FALSE, 1)

----------------------------------------------------------------------------
(* GoogleSheetsService.update_task *)

\* updates is the dict's items in order: <<field_name, new_value>> pairs
\* the sheet after the first n items of updates are handled
RECURSIVE ApplyUpdates(_, _, _, _)
ApplyUpdates(rows, row_num, updates, n) ==
    IF n = 0 THEN rows
    ELSE LET before == ApplyUpdates(rows, row_num, updates, n - 1)
             field  == updates[n][1]
         IN  IF field \in Range(SHEETS_HEADERS)
             THEN UpdateCell(before, row_num, IndexOf(SHEETS_HEADERS, field), updates[n][2])
             ELSE before

\* the items of updates that are written: those naming a column
Recognized(updates) == {n \in DOMAIN updates : updates[n][1] \in Range(SHEETS_HEADERS)}

\* the n-th written item's position in updates
NthRecognized(updates, n) ==
    CHOOSE i \in Recognized(updates) : Cardinality({j \in Recognized(updates) : j <= i}) = n

\* an update that refuses a key that names no column
UpdateRejectsUnknownKeys(rows, task_id, updates, failAt) ==
    IF ~IsInt(task_id) \/ Recognized(updates) # DOMAIN updates
    THEN Outcome(rows, "False", FALSE, 0)
    ELSE Outcome(ApplyUpdates(rows, IntOfStr(task_id) + 1, updates, Len(updates)),
                 "True", FALSE, Len(updates))

update_task(rows, task_id, updates, failAt) ==
    LET row_num == IntOfStr(task_id) + 1
        nWrites == Cardinality(Recognized(updates))
        \* the first write that raises: the failAt-th, or the first when the
        \* row is outside the grid
        bad     == IF nWrites = 0 THEN 0
                   ELSE IF ~CellInGrid(row_num, 1) THEN 1
                   ELSE IF failAt \in 1..nWrites THEN failAt
                   ELSE 0
    IN  IF ~IsInt(task_id)
        THEN \* ValueError, caught: return False
             Outcome(rows, "False", FALSE, 0)
        ELSE IF bad > 0
        THEN \* the writes before the failing one stay; caught: return False
             Outcome(ApplyUpdates(rows, row_num, updates, NthRecognized(updates, bad) - 1),
                     "False", FALSE, bad)
        ELSE Outcome(ApplyUpdates(rows, row_num, updates, Len(updates)), "True", FALSE, nWrites)

----------------------------------------------------------------------------
(* The filtered reads *)

\* a filter that keeps the rows of the other statuses
FilterInverted(rows, status, readFails) ==
    SelectSeq(get_all_tasks(rows, readFails), LAMBDA task : Get(task, "Status", "None") # status)

\* [task for task in all_tasks if task.get('Status') == status]
get_tasks_by_status(rows, status, readFails) ==
    SelectSeq(get_all_tasks(rows, readFails), LAMBDA task : Get(task, "Status", "None") = status)

\* the numbers in a date string written as %Y-%m-%d %H:%M:%S, << >> for a
\* string that is not written that way
DateFields(s) ==
    CASE s = "2024-01-15 10:00:00" -> <<2024, 1, 15, 10, 0, 0>>
      [] s = "2024-01-31 23:59:59" -> <<2024, 1, 31, 23, 59, 59>>
      [] s = "2024-02-01 09:30:00" -> <<2024, 2, 1, 9, 30, 0>>
      [] s = "2024-02-30 08:00:00" -> <<2024, 2, 30, 8, 0, 0>>
      [] s = "2024-13-40 00:00:00" -> <<2024, 13, 40, 0, 0, 0>>
      [] OTHER -> <<>>

DaysInMonth(y, m) ==
    IF m = 2 THEN (IF y % 4 = 0 /\ (y % 100 # 0 \/ y % 400 = 0) THEN 29 ELSE 28)
    ELSE IF m \in {4, 6, 9, 11} THEN 30 ELSE 31

\* datetime.strptime(s, '%Y-%m-%d %H:%M:%S') returns a datetime (TRUE) or
\* raises ValueError (FALSE)
Parses(s) ==
    LET f == DateFields(s)
    IN  /\ f # <<>>
        /\ f[2] \in 1..12
        /\ f[3] \in 1..DaysInMonth(f[1], f[2])
        /\ f[4] \in 0..23 /\ f[5] \in 0..59 /\ f[6] \in 0..59

\* a <= b on datetimes: the fields compared from the year down
RECURSIVE LeqFrom(_, _, _)
LeqFrom(a, b, i) ==
    IF i > Len(a) THEN TRUE
    ELSE IF a[i] < b[i] THEN TRUE
    ELSE IF a[i] > b[i] THEN FALSE
    ELSE LeqFrom(a, b, i + 1)

Leq(a, b) == LeqFrom(a, b, 1)

\* a date filter that leaves the end of the range out
RangeEndExclusive(rows, start_date, end_date, readFails) ==
    SelectSeq(get_all_tasks(rows, readFails),
              LAMBDA task :
                  LET upload_date_str == Get(task, "Upload Date", "")
                  IN  /\ upload_date_str # ""
                      /\ Parses(upload_date_str)
                      /\ Leq(start_date, DateFields(upload_date_str))
                      /\ Leq(DateFields(upload_date_str), end_date)
                      /\ DateFields(upload_date_str) # end_date)

\* start_date and end_date are datetimes, given by their fields
get_tasks_by_date_range(rows, start_date, end_date, readFails) ==
    SelectSeq(get_all_tasks(rows, readFails),
              LAMBDA task :
                  LET upload_date_str == Get(task, "Upload Date", "")
                  IN  \* if upload_date_str: try strptime except ValueError: continue
                      /\ upload_date_str # ""
                      /\ Parses(upload_date_str)
                      /\ Leq(start_date, DateFields(upload_date_str))
                      /\ Leq(DateFields(upload_date_str), end_date))

----------------------------------------------------------------------------
(* get_cached_tasks: @st.cache_data(ttl=60) around get_all_tasks *)

CACHE_TTL == 60

\* the clock advances in steps of half the ttl
TickSeconds == CACHE_TTL \div 2

EmptyCache == [filled |-> FALSE, data |-> <<>>, at |-> 0]

\* an entry is served while it is younger than the ttl
CacheLive(c, now) == c.filled /\ now - c.at < CACHE_TTL

\* the call's result, the cache after it, and whether the entry was served
get_cached_tasks(c, now, rows, readFails) ==
    IF CacheLive(c, now)
    THEN [tasks |-> c.data, cache |-> c, hit |-> TRUE]
    ELSE LET tasks == get_all_tasks(rows, readFails)
         IN  [tasks |-> tasks,
              cache |-> [filled |-> TRUE, data |-> tasks, at |-> now],
              hit |-> FALSE]

\* st.cache_data.clear()
ClearCache == EmptyCache

----------------------------------------------------------------------------
(* utils/auth.py *)

PASSWORD_HASH == "c18f0a5262d2956fe5beace7bde6f2e0dcbbda83945b0b310cc0cc4abe29ee4e"

\* hashlib.sha256(password.encode()).hexdigest() on the passwords of the
\* model; "[the password]" stands for the string whose digest is PASSWORD_HASH
hash_password(password) ==
    CASE password = "[the password]" -> PASSWORD_HASH
      [] password = "987654321" -> "8a9bcf1e51e812d0af8465a8dbcc9f741064bf0af3b3d08e6b0246437c19f7fb"
      [] password = "letmein" -> "1c8bfe8f801d79745c4631d09fff36c82aa37fc4cce4fc946683d7b336b63032"
      [] OTHER -> "e3b0c44298fc1c149afbf4c8996fb92427ae41e4649b934ca495991b7852b855"

check_password(password) == hash_password(password) = PASSWORD_HASH

\* st.session_state.get('authenticated', False)
is_authenticated(state) == state.authenticated

\* the session state after login(password)
login(state, password) ==
    IF check_password(password) THEN [state EXCEPT !.authenticated = TRUE] ELSE state

\* TRUE: the page goes on; FALSE: the login form is shown and st.stop()
require_auth(state) == is_authenticated(state)

\* the login form of require_auth is submitted with password
LoginForm(password) ==
    /\ ~is_authenticated(session)
    /\ session' = login(session, password)
    /\ UNCHANGED <<sheet, svcVars, appVars, writers, job, gdrive>>

----------------------------------------------------------------------------
(* utils/file_validator.py *)

\* str.lower() on the suffixes of the model
Lower(s) ==
    CASE s = ".MP4" -> ".mp4"
      [] s = ".PNG" -> ".png"
      [] s = ".Pdf" -> ".pdf"
      [] s = ".EXE" -> ".exe"
      [] OTHER -> s

\* Path(filename).suffix of a name given as <<stem, suffix>>
Suffix(filename) == filename[2]

validate_file_type(filename) == Lower(Suffix(filename)) \in ALLOWED_EXTENSIONS

\* a size check that accepts every size
SizeNotChecked(file_size_bytes) == TRUE

validate_file_size(file_size_bytes) ==
    ~(file_size_bytes > MAX_FILE_SIZE_MB * 1024 * 1024)

\* a category lookup that compares the suffix as it is written
CategoryCaseSensitive(filename) ==
    LET file_ext == Suffix(filename)
    IN  IF \E c \in DOMAIN ALLOWED_FILE_TYPES : file_ext \in ALLOWED_FILE_TYPES[c]
        THEN CHOOSE c \in DOMAIN ALLOWED_FILE_TYPES : file_ext \in ALLOWED_FILE_TYPES[c]
        ELSE "unknown"

get_file_category(filename) ==
    LET file_ext == Lower(Suffix(filename))
    IN  IF \E c \in DOMAIN ALLOWED_FILE_TYPES : file_ext \in ALLOWED_FILE_TYPES[c]
        THEN CHOOSE c \in DOMAIN ALLOWED_FILE_TYPES : file_ext \in ALLOWED_FILE_TYPES[c]
        ELSE "unknown"

validate_uploaded_file(uploaded_file) ==
    IF ~validate_file_type(uploaded_file.name)
    THEN [is_valid |-> FALSE, message |-> "File type not allowed", category |-> ""]
    ELSE IF ~validate_file_size(uploaded_file.size)
    THEN [is_valid |-> FALSE, message |-> "File size exceeds maximum", category |-> ""]
    ELSE [is_valid |-> TRUE, message |-> "File validation successful",
          category |-> get_file_category(uploaded_file.name)]

----------------------------------------------------------------------------
(* GoogleDriveService.organize_by_date *)

\* self.root_folder_id; the folders created have the ids 1, 2, ...
root_folder_id == 0

\* folders: the folders below the root, each [name, parent], the n-th with
\* id n; the rest is the last organize_by_date call and what it did
NoFolders ==
    [folders |-> <<>>, calls |-> 0, now |-> <<"", "">>, file_category |-> "",
     raised |-> FALSE, ret |-> root_folder_id, created |-> 0]

\* a lookup that finds no folder
FindsNothing(folders, folder_name, parent_id) == 0

\* files().list(q = name and parent and folder and not trashed, pageSize=1):
\* the id of the first folder found, 0 when files is empty
FindFolder(folders, folder_name, parent_id) ==
    LET found == {i \in DOMAIN folders :
                     folders[i].name = folder_name /\ folders[i].parent = parent_id}
    IN  IF found = {} THEN 0
        ELSE CHOOSE i \in found : \A j \in found : i <= j

\* files().create(body = name, folder, parents = [parent_id]): the new id
create_folder(folders, folder_name, parent_id) ==
    [folders |-> Append(folders, [name |-> folder_name, parent |-> parent_id]),
     id |-> Len(folders) + 1]

\* st: the folders, the requests made so far in the call, the request that
\* fails (0: none), whether an exception is on its way, the id returned
_get_or_create_folder(st, folder_name, parent_id) ==
    IF st.raised THEN st
    ELSE IF st.req + 1 = st.failAt
    THEN \* list raises: logged and raised again
         [st EXCEPT !.req = st.req + 1, !.raised = TRUE]
    ELSE LET id == FindFolder(st.folders, folder_name, parent_id)
         IN  IF id # 0
             THEN [st EXCEPT !.req = st.req + 1, !.id = id]
             ELSE IF st.req + 2 = st.failAt
             THEN \* create raises: logged and raised again
                  [st EXCEPT !.req = st.req + 2, !.raised = TRUE]
             ELSE LET made == create_folder(st.folders, folder_name, parent_id)
                  IN  [st EXCEPT !.req = st.req + 2, !.folders = made.folders,
                                 !.id = made.id]

\* now: <<year, month>> as strftime gives them
organize_by_date(folders, now, file_category, failAt) ==
    LET st0 == [folders |-> folders, req |-> 0, failAt |-> failAt, raised |-> FALSE,
                id |-> root_folder_id]
        year_folder     == _get_or_create_folder(st0, now[1], root_folder_id)
        month_folder    == _get_or_create_folder(year_folder, now[2], year_folder.id)
        category_folder == _get_or_create_folder(month_folder, file_category, month_folder.id)
    IN  [folders |-> category_folder.folders,
         raised  |-> category_folder.raised,
         ret     |-> IF category_folder.raised THEN root_folder_id \* fallback to root
                     ELSE category_folder.id]

CallOrganizeByDate(now, file_category, failAt) ==
    LET out == organize_by_date(gdrive.folders, now, file_category, failAt)
    IN  /\ gdrive.calls < MaxOps
        /\ gdrive' = [folders |-> out.folders, calls |-> gdrive.calls + 1, now |-> now,
                     file_category |-> file_category, raised |-> out.raised,
                     ret |-> out.ret,
                     created |-> Len(out.folders) - Len(gdrive.folders)]
        /\ UNCHANGED <<sheet, svcVars, appVars, writers, job, session>>

----------------------------------------------------------------------------
(* GoogleDriveService.upload_file *)

\* an upload that returns an empty result instead of raising again
UploadSwallowsFailure(filename, uploadFails) ==
    [raised |-> FALSE,
     webViewLink |-> IF uploadFails THEN "" ELSE "https://drive/" \o filename[1]]

\* the upload's result: the file's metadata, or the exception raised again
upload_file(filename, uploadFails) ==
    IF uploadFails
    THEN [raised |-> TRUE, webViewLink |-> ""]
    ELSE [raised |-> FALSE, webViewLink |-> "https://drive/" \o filename[1]]

----------------------------------------------------------------------------
(* GeminiProcessor.process_file *)

\* the model's answers of the model: one that decodes as JSON, one that does not
JsonText == "{task_name: Login fails, summary: Button dead}"

PlainText == "not json at all"

\* [fence] stands for the three backquotes of a code fence
\* the same JSON inside a fence marked json, inside a bare fence, and
\* between blank lines
FencedJson == "[fence]json\n" \o JsonText \o "\n[fence]"

BareFencedJson == "[fence]\n" \o JsonText \o "\n[fence]"

PaddedJson == "\n" \o JsonText \o "\n"

\* texts that are not JSON: prose inside a fence, JSON followed by prose
\* after the closing fence, and the empty text
FencedPlain == "[fence]json\n" \o PlainText \o "\n[fence]"

TrailingProse == "[fence]json\n" \o JsonText \o "\n[fence] Hope this helps!"

\* a response text as its pieces: a fence mark, the word json, white space,
\* the text of a JSON object, any other text
Pieces(text) ==
    CASE text = JsonText       -> <<"obj">>
      [] text = FencedJson     -> <<"[fence]", "json", "ws", "obj", "ws", "[fence]">>
      [] text = BareFencedJson -> <<"[fence]", "ws", "obj", "ws", "[fence]">>
      [] text = PaddedJson     -> <<"ws", "obj", "ws">>
      [] text = FencedPlain    -> <<"[fence]", "json", "ws", "txt", "ws", "[fence]">>
      [] text = TrailingProse  -> <<"[fence]", "json", "ws", "obj", "ws", "[fence]", "ws", "txt">>
      [] text = ""             -> <<>>
      [] OTHER                 -> <<"txt">>

\* str.strip()
RECURSIVE StripPieces(_)
StripPieces(t) ==
    IF t # <<>> /\ t[1] = "ws" THEN StripPieces(Tail(t))
    ELSE IF t # <<>> /\ t[Len(t)] = "ws" THEN StripPieces(SubSeq(t, 1, Len(t) - 1))
    ELSE t

\* str.startswith / str.endswith on pieces
StartsWith(t, prefix) == Len(t) >= Len(prefix) /\ SubSeq(t, 1, Len(prefix)) = prefix

EndsWith(t, suffix) ==
    Len(t) >= Len(suffix) /\ SubSeq(t, Len(t) - Len(suffix) + 1, Len(t)) = suffix

\* the text handed to json.loads: stripped, without a leading fence mark
\* with json, a leading fence mark and a trailing fence mark, stripped again
Unfenced(response_text) ==
    LET t0 == StripPieces(Pieces(response_text))
        t1 == IF StartsWith(t0, <<"[fence]", "json">>) THEN SubSeq(t0, 3, Len(t0)) ELSE t0
        t2 == IF StartsWith(t1, <<"[fence]">>) THEN Tail(t1) ELSE t1
        t3 == IF EndsWith(t2, <<"[fence]">>) THEN SubSeq(t2, 1, Len(t2) - 1) ELSE t2
    IN  StripPieces(t3)

\* json.loads accepts the text of one JSON value
JsonLoads(t) == t = <<"obj">>

\* a fallback that returns the text handed to json.loads, without the flag
ParseDropsRawText(response_text) ==
    IF JsonLoads(Unfenced(response_text))
    THEN ("task_name" :> "Login fails") @@ ("summary" :> "Button dead")
    ELSE ("task_name" :> "Untitled Task") @@ ("summary" :> PlainText)

_parse_json_response(response_text) ==
    IF JsonLoads(Unfenced(response_text))
    THEN ("task_name" :> "Login fails") @@ ("summary" :> "Button dead")
    ELSE \* except json.JSONDecodeError
         ("task_name" :> "Untitled Task") @@ ("summary" :> response_text)
            @@ ("raw_response" :> "True")

\* ai: what happens inside the category's _process_* method: the file
\* processing raises before the model is called, the model call raises, or
\* the model answers with a text
process_file(filename, file_category, ai) ==
    IF ai \in {"file_raises", "model_raises"}
    THEN \* except Exception: the fallback result
         [result |-> ("task_name" :> ("Error processing " \o filename[1]))
                        @@ ("summary" :> "Failed to analyze file")
                        @@ ("error" :> "True"),
          calls  |-> IF ai = "model_raises" THEN <<"model.generate_content">> ELSE <<>>]
    ELSE [result |-> _parse_json_response(ai),
          calls  |-> <<"model.generate_content">>]

\* _process_video and _process_document, one action for each request they
\* make.  staged: the temporary file is on disk; remote: the state of the
\* file at the model's file service; observed: the state the call has read
\* from it ("unread": it has read none); submitted: generate_content was
\* called; polled: get_file was called; analysed: the files the session has
\* had analysed before this one
NoJob ==
    [pc |-> "idle", category |-> "", staged |-> FALSE, remote |-> "none",
     observed |-> "unread", submitted |-> FALSE, result |-> EmptyDict,
     polled |-> FALSE, analysed |-> 0]

\* except Exception in _process_*: log and raise; except Exception in
\* process_file: the fallback result
Raised(j) ==
    [j EXCEPT !.pc = "done",
              !.result = ("task_name" :> "Error processing file")
                            @@ ("summary" :> "Failed to analyze file")
                            @@ ("error" :> "True")]

\* with tempfile.NamedTemporaryFile(delete=False, ...): write, keep the path
StageTempFile(file_category) ==
    /\ job.pc = "idle"
    /\ job.analysed < MaxOps
    /\ job' = [NoJob EXCEPT !.pc = "staged", !.category = file_category, !.staged = TRUE,
                            !.analysed = job.analysed]
    /\ UNCHANGED <<sheet, svcVars, appVars, writers, gdrive, session>>

\* genai.upload_file(path=temp_path): raises, or returns the remote file in
\* the state the service gives it; only _process_video reads the state
UploadToModel(fails, state) ==
    /\ job.pc = "staged"
    /\ job' = IF fails THEN Raised(job)
              ELSE [job EXCEPT !.remote = state,
                               !.observed = IF job.category = "video" THEN state ELSE "unread",
                               !.pc = IF job.category = "video" THEN "poll" ELSE "generate"]
    /\ UNCHANGED <<sheet, svcVars, appVars, writers, gdrive, session>>

\* the file service ends its ingestion of the file
RemoteIngest(state) ==
    /\ job.remote = "PROCESSING"
    /\ job' = [job EXCEPT !.remote = state]
    /\ UNCHANGED <<sheet, svcVars, appVars, writers, gdrive, session>>

\* a loop test that never lets the loop end
LoopNeverExits(state) == TRUE

\* while video_file.state.name == "PROCESSING"
StillProcessing(state) == state = "PROCESSING"

\* one test of the loop: time.sleep(2) and genai.get_file, which raises or
\* returns the file in its present state, or the loop's exit
PollFile(fails) ==
    /\ job.pc = "poll"
    /\ job' = IF StillProcessing(job.observed)
              THEN (IF fails THEN [Raised(job) EXCEPT !.polled = TRUE]
                    ELSE [job EXCEPT !.observed = job.remote, !.polled = TRUE])
              ELSE [job EXCEPT !.pc = "generate"]
    /\ UNCHANGED <<sheet, svcVars, appVars, writers, gdrive, session>>

\* self.model.generate_content([file, prompt]): raises, or answers with a
\* text; then os.unlink(temp_path) and the parsed answer is returned
GenerateContent(ai) ==
    /\ job.pc = "generate"
    /\ job' = IF ai = "model_raises"
              THEN [Raised(job) EXCEPT !.submitted = TRUE]
              ELSE [job EXCEPT !.pc = "done", !.submitted = TRUE, !.staged = FALSE,
                               !.result = _parse_json_response(ai)]
    /\ UNCHANGED <<sheet, svcVars, appVars, writers, gdrive, session>>

\* process_file has returned; the next file can be analysed
JobReturn ==
    /\ job.pc = "done"
    /\ job' = [NoJob EXCEPT !.analysed = job.analysed + 1]
    /\ UNCHANGED <<sheet, svcVars, appVars, writers, gdrive, session>>

\* str(ai_result)
StrOfResult(d) ==
    IF "error" \in DOMAIN d THEN "{task_name, summary, error: True}"
    ELSE IF "raw_response" \in DOMAIN d
    THEN "{task_name: Untitled Task, summary: " \o d["summary"] \o ", raw_response: True}"
    ELSE JsonText

----------------------------------------------------------------------------
(* GeminiProcessor.generate_test_cases / generate_requirement_doc /
   generate_scrum_email: ai is the model's answer, or "model_raises" *)

\* the prompt is built from the tasks, however many, and sent once; an
\* exception is caught and a fixed text returned
generate_test_cases(tasks, ai) ==
    [ret   |-> IF ai = "model_raises" THEN "Error generating test cases" ELSE ai,
     raised |-> FALSE,
     calls |-> <<"model.generate_content">>]

generate_requirement_doc(tasks, ai) ==
    [ret   |-> IF ai = "model_raises" THEN "# Error: Failed to generate requirement document"
               ELSE ai,
     raised |-> FALSE,
     calls |-> <<"model.generate_content">>]

generate_scrum_email(tasks, week_start, week_end, ai) ==
    [ret   |-> IF ai = "model_raises" THEN "Error generating email draft" ELSE ai,
     raised |-> FALSE,
     calls |-> <<"model.generate_content">>]

----------------------------------------------------------------------------
(* pages/3_Generate.py: one run of the page with the button of a tab pressed
   where the tab shows one *)

\* [task for task in tasks if task.get('Status') in statuses]
WithStatusIn(tasks, statuses) ==
    SelectSeq(tasks, LAMBDA task : Get(task, "Status", "None") \in statuses)

GeneratePage(tab, include_filter, week_start, week_end, ai, readFails) ==
    LET all_tasks  == get_all_tasks(sheet, readFails)
        done_tasks == WithStatusIn(all_tasks, {"Done"})
        filtered_tasks == WithStatusIn(all_tasks, include_filter)
        week_tasks == get_tasks_by_date_range(sheet, week_start, week_end, readFails)
        completed_week_tasks == WithStatusIn(week_tasks, {"Done"})
        \* the tasks the tab works on, and whether the tab shows its button
        tasks  == CASE tab = "test_cases" -> done_tasks
                    [] tab = "requirement_doc" -> filtered_tasks
                    [] tab = "scrum_email" -> completed_week_tasks
        button == CASE tab = "test_cases" -> Len(done_tasks) # 0
                    [] tab = "requirement_doc" -> Len(all_tasks) # 0
                    [] tab = "scrum_email" -> Len(completed_week_tasks) # 0
        out    == CASE tab = "test_cases" -> generate_test_cases(tasks, ai)
                    [] tab = "requirement_doc" -> generate_requirement_doc(tasks, ai)
                    [] tab = "scrum_email" ->
                          generate_scrum_email(tasks, week_start, week_end, ai)
    IN  /\ UNCHANGED <<envVars, sheet, svcVars, cache, clock, board>>
        /\ IF ~button
           THEN \* st.warning: no tasks
                run' = [page |-> "Generate", tab |-> tab, tasks |-> tasks,
                        model_raised |-> FALSE, calls |-> <<>>, content |-> "",
                        shown |-> "nothing to generate"]
           ELSE \* the engine returned: success is shown (the except branch
                \* shows an error when the engine raises)
                run' = [page |-> "Generate", tab |-> tab, tasks |-> tasks,
                        model_raised |-> (ai = "model_raises"), calls |-> out.calls,
                        content |-> out.ret,
                        shown |-> IF out.raised THEN "error" ELSE "success"]

\* a direct call of generate_test_cases
CallGenerateTestCases(tasks, ai) ==
    LET out == generate_test_cases(tasks, ai)
    IN  /\ UNCHANGED <<envVars, sheet, svcVars, cache, clock, board>>
        /\ run' = [page |-> "engine", tab |-> "test_cases", tasks |-> tasks,
                   model_raised |-> (ai = "model_raises"), calls |-> out.calls,
                   content |-> out.ret,
                   shown |-> IF out.raised THEN "error" ELSE "success"]

----------------------------------------------------------------------------
(* pages/1_Upload.py: one run of the page with a file chosen *)

UploadPage(uploaded_file, context_notes, clicked, uploadFails, ai, failAt) ==
    LET v        == validate_uploaded_file(uploaded_file)
        category == v.category
        drive    == upload_file(uploaded_file.name, uploadFails)
        ai_out   == process_file(uploaded_file.name, category, ai)
        task_data ==
            ("task_name" :> Get(ai_out.result, "task_name", "Task from file"))
            @@ ("upload_date" :> NowStr)
            @@ ("status" :> "In Review")
            @@ ("file_type" :> category)
            @@ ("evidence_link" :> drive.webViewLink)
            @@ ("ai_summary" :> StrOfResult(ai_out.result))
            @@ ("context_notes" :> context_notes)
        out      == create_task(sheet, task_data, failAt)
        base     == [page |-> "Upload", file |-> uploaded_file, valid |-> v.is_valid,
                     clicked |-> clicked, drive_fails |-> uploadFails,
                     upload_raised |-> FALSE, ai |-> "",
                     calls |-> <<>>, task_data |-> EmptyDict, task_id |-> "",
                     shown |-> "error"]
    IN  /\ Len(sheet) < GridRows
        /\ UNCHANGED <<envVars, svcVars, cache, clock, board>>
        /\ IF ~v.is_valid
           THEN \* st.error; st.stop()
                /\ sheet' = sheet
                /\ run' = base
           ELSE IF ~clicked
           THEN /\ sheet' = sheet
                /\ run' = [base EXCEPT !.shown = "file information"]
           ELSE IF drive.raised
           THEN \* upload_file raised: except Exception, st.error
                /\ sheet' = sheet
                /\ run' = [base EXCEPT !.upload_raised = TRUE,
                               !.calls = <<"drive.organize_by_date", "drive.upload_file">>]
           ELSE /\ sheet' = out.sheet
                /\ run' = [base EXCEPT
                      !.ai = ai,
                      !.calls = <<"drive.organize_by_date", "drive.upload_file">>
                                \o ai_out.calls \o <<"sheets.create_task">>,
                      !.task_data = task_data,
                      !.task_id = out.ret,
                      !.shown = IF out.raised THEN "error" ELSE "task created"]

----------------------------------------------------------------------------
(* pages/4_Quick_Notes.py: one run of the page with Save Note pressed *)

NotesPage(note_title, note_status, note_content, enhance_with_ai, ai, failAt) ==
    LET title    == IF note_title = "" THEN "Note from " \o NowStr ELSE note_title
        raises   == enhance_with_ai /\ ai = "model_raises"
        ai_summary == IF enhance_with_ai THEN ai ELSE note_content
        task_data ==
            ("task_name" :> title)
            @@ ("upload_date" :> NowStr)
            @@ ("status" :> note_status)
            @@ ("file_type" :> "note")
            @@ ("evidence_link" :> "")
            @@ ("ai_summary" :> ai_summary)
            @@ ("context_notes" :> note_content)
        out      == create_task(sheet, task_data, failAt)
        base     == [page |-> "Notes", content |-> note_content,
                     enhance |-> enhance_with_ai, model_raised |-> raises,
                     calls |-> IF enhance_with_ai THEN <<"model.generate_content">> ELSE <<>>,
                     task_data |-> EmptyDict, task_id |-> "", shown |-> "error"]
    IN  /\ Len(sheet) < GridRows
        \* the button is disabled while the note is empty
        /\ note_content # ""
        /\ UNCHANGED <<envVars, svcVars, cache, clock, board>>
        /\ IF raises
           THEN \* generate_content raised: except Exception, st.error
                /\ sheet' = sheet
                /\ run' = base
           ELSE /\ sheet' = out.sheet
                /\ run' = [base EXCEPT
                      !.calls = @ \o <<"sheets.create_task">>,
                      !.task_data = task_data,
                      !.task_id = out.ret,
                      !.shown = IF out.raised THEN "error" ELSE "note saved"]

----------------------------------------------------------------------------
(* pages/2_Sprint_Board.py *)

\* the board's cards: render_task_card is called for the tasks whose Status
\* is one of TASK_STATUSES
Cards(tasks) ==
    {i \in DOMAIN tasks : Get(tasks[i], "Status", "In Review") \in Range(TASK_STATUSES)}

\* the card of the task with this id among tasks (0: none)
CardOf(tasks, task_id) ==
    IF \E i \in Cards(tasks) : Get(tasks[i], "Task ID", "") = task_id
    THEN CHOOSE i \in Cards(tasks) : Get(tasks[i], "Task ID", "") = task_id
    ELSE 0

\* a run of the page with no widget changed
BoardLoad(readFails) ==
    LET got == get_cached_tasks(cache, clock, sheet, readFails)
    IN  /\ cache' = got.cache
        /\ board' = got.tasks
        /\ run' = [page |-> "Board", op |-> "load", hit |-> got.hit,
                   read_failed |-> (~got.hit /\ readFails),
                   age |-> clock - cache.at]
        /\ UNCHANGED <<envVars, sheet, svcVars, clock>>

\* the run after the user picks new_status in the selectbox of card i:
\* render_task_card finds new_status != status
BoardChangeStatus(i, new_status, readFails, failAt) ==
    LET task_id == Get(board[i], "Task ID", "")
        got     == get_cached_tasks(cache, clock, sheet, readFails)
        j       == CardOf(got.tasks, task_id)
        status  == Get(got.tasks[j], "Status", "In Review")
        out     == update_task_status(sheet, task_id, new_status, failAt)
    IN  /\ i \in Cards(board)
        /\ new_status # Get(board[i], "Status", "In Review")
        /\ board' = got.tasks
        /\ UNCHANGED <<envVars, svcVars, clock>>
        /\ IF j # 0 /\ new_status # status
           THEN \* update_task_status; success_toast; st.cache_data.clear(); st.rerun()
                /\ sheet' = out.sheet
                /\ cache' = ClearCache
                /\ run' = [page |-> "Board", op |-> "status", task_id |-> task_id,
                           new_status |-> new_status, ret |-> out.ret,
                           shown |-> "success"]
           ELSE /\ sheet' = sheet
                /\ cache' = got.cache
                /\ run' = [page |-> "Board", op |-> "load", hit |-> got.hit,
                           read_failed |-> (~got.hit /\ readFails),
                           age |-> clock - cache.at]

\* the run after the user presses Save in the edit form of card i
BoardSaveEdits(i, new_name, new_notes, readFails, failAt) ==
    LET task_id == Get(board[i], "Task ID", "")
        got     == get_cached_tasks(cache, clock, sheet, readFails)
        j       == CardOf(got.tasks, task_id)
        task_name     == Get(got.tasks[j], "Task Name", "Untitled")
        context_notes == Get(got.tasks[j], "Context Notes", "")
        updates == (IF new_name # task_name THEN <<<<"Task Name", new_name>>>> ELSE <<>>)
                   \o (IF new_notes # context_notes
                       THEN <<<<"Context Notes", new_notes>>>> ELSE <<>>)
        out     == update_task(sheet, task_id, updates, failAt)
    IN  /\ i \in Cards(board)
        /\ board' = got.tasks
        /\ UNCHANGED <<envVars, svcVars, clock>>
        /\ IF j # 0 /\ updates # <<>>
           THEN \* update_task; success_toast; st.cache_data.clear(); st.rerun()
                /\ sheet' = out.sheet
                /\ cache' = ClearCache
                /\ run' = [page |-> "Board", op |-> "edit", task_id |-> task_id,
                           updates |-> updates, ret |-> out.ret, shown |-> "success"]
           ELSE /\ sheet' = sheet
                /\ cache' = got.cache
                /\ run' = [page |-> "Board", op |-> "load", hit |-> got.hit,
                           read_failed |-> (~got.hit /\ readFails),
                           age |-> clock - cache.at]

\* time passes
Tick ==
    /\ clock < MaxTicks * TickSeconds
    /\ clock' = clock + TickSeconds
    /\ UNCHANGED <<envVars, sheet, svcVars, cache, board, run>>

----------------------------------------------------------------------------
(* Calls of the service with arbitrary arguments *)

Called(op, task_id, task_data, new_status, updates, out) ==
    /\ nops < MaxOps
    /\ nops' = nops + 1
    /\ sheet' = out.sheet
    /\ last' = [op |-> op, task_id |-> task_id, task_data |-> task_data,
                new_status |-> new_status, updates |-> updates,
                ret |-> out.ret, raised |-> out.raised, writes |-> out.writes]
    /\ UNCHANGED <<envVars, appVars>>

CallCreateTask(task_data, failAt) ==
    /\ Len(sheet) < GridRows
    /\ Called("create_task", "", task_data, "", <<>>, create_task(sheet, task_data, failAt))

CallUpdateTaskStatus(task_id, new_status, failAt) ==
    Called("update_task_status", task_id, EmptyDict, new_status, <<>>,
           update_task_status(sheet, task_id, new_status, failAt))

CallUpdateTask(task_id, updates, failAt) ==
    Called("update_task", task_id, EmptyDict, "", updates,
           update_task(sheet, task_id, updates, failAt))

\* the validators, called directly: the call and its result are kept
CallValidateFileType(filename) ==
    /\ nops < MaxOps
    /\ nops' = nops + 1
    /\ last' = [op |-> "validate_file_type", filename |-> filename, raised |-> FALSE,
                ret |-> validate_file_type(filename)]
    /\ UNCHANGED <<envVars, sheet, appVars>>

CallGetFileCategory(filename) ==
    /\ nops < MaxOps
    /\ nops' = nops + 1
    /\ last' = [op |-> "get_file_category", filename |-> filename, raised |-> FALSE,
                ret |-> get_file_category(filename)]
    /\ UNCHANGED <<envVars, sheet, appVars>>

CallValidateUploadedFile(uploaded_file) ==
    /\ nops < MaxOps
    /\ nops' = nops + 1
    /\ last' = [op |-> "validate_uploaded_file", filename |-> uploaded_file.name,
                size |-> uploaded_file.size, raised |-> FALSE,
                ret |-> validate_uploaded_file(uploaded_file)]
    /\ UNCHANGED <<envVars, sheet, appVars>>

\* the filtered reads, called directly: the call and its result are kept
CallGetTasksByStatus(status, readFails) ==
    /\ last' = [op |-> "get_tasks_by_status", status |-> status,
                read_failed |-> readFails, raised |-> FALSE,
                ret |-> get_tasks_by_status(sheet, status, readFails)]
    /\ UNCHANGED <<envVars, sheet, nops, appVars>>

CallGetTasksByDateRange(start_date, end_date, readFails) ==
    /\ last' = [op |-> "get_tasks_by_date_range", start_date |-> start_date,
                end_date |-> end_date, read_failed |-> readFails, raised |-> FALSE,
                ret |-> get_tasks_by_date_range(sheet, start_date, end_date, readFails)]
    /\ UNCHANGED <<envVars, sheet, nops, appVars>>

----------------------------------------------------------------------------
(* Arguments explored *)

TaskDataArgs ==
    { EmptyDict,
      ("task_name" :> "Login bug") @@ ("file_type" :> "image")
          @@ ("context_notes" :> "repro on mobile"),
      ("task_name" :> "Release notes") @@ ("upload_date" :> "2024-01-15 10:00:00")
          @@ ("status" :> "Done") @@ ("file_type" :> "note") @@ ("evidence_link" :> "")
          @@ ("ai_summary" :> "summary") @@ ("context_notes" :> "raw note"),
      ("status" :> "Blocked") }

\* ids of the rows of the grid and one past it, a negative id, not a number
TaskIdArgs == {StrOfInt(n) : n \in 0..GridRows} \cup {"-1", "abc"}

\* an id whose row is at most one past the last row: the table stays one block
Adjacent(task_id) == IsInt(task_id) => IntOfStr(task_id) + 1 <= Len(sheet) + 1 \/ IntOfStr(task_id) + 1 > GridRows

StatusArgs == {"Passed In Review", "Done", "Blocked"}

UpdatesArgs ==
    { <<<<"Task Name", "Renamed">>, <<"Context Notes", "edited">>>>,
      <<<<"priority", "high">>, <<"Task Name", "Renamed">>>>,
      <<<<"Status", "Blocked">>>>,
      <<<<"Task ID", "2">>>> }

\* requests to the sheet one call can make, plus none failing
FailArgs == 0..2

Init ==
    /\ sheet = <<SHEETS_HEADERS>>
    /\ last = NoCall
    /\ nops = 0
    /\ cache = EmptyCache
    /\ clock = 0
    /\ board = <<>>
    /\ run = [page |-> "none"]
    /\ writers = [w \in Writers |-> IdleWriter]
    /\ job = NoJob
    /\ gdrive = NoFolders
    /\ session = [authenticated |-> FALSE]

Next ==
    \/ \E task_data \in TaskDataArgs, failAt \in FailArgs :
          CallCreateTask(task_data, failAt)
    \/ \E task_id \in TaskIdArgs, new_status \in StatusArgs, failAt \in FailArgs :
          Adjacent(task_id) /\ CallUpdateTaskStatus(task_id, new_status, failAt)
    \/ \E task_id \in TaskIdArgs, updates \in UpdatesArgs, failAt \in FailArgs :
          Adjacent(task_id) /\ CallUpdateTask(task_id, updates, failAt)

Spec == Init /\ [][Next]_vars

\* The validators on file names: accepted suffixes as configured and in
\* other cases, suffixes not accepted, no suffix, a stem with a dot in it
SuffixArgs == ALLOWED_EXTENSIONS \cup {".MP4", ".PNG", ".Pdf", ".exe", ".EXE", ".gz", ""}

FilenameArgs == {<<stem, suffix>> : stem \in {"clip", "archive.tar"}, suffix \in SuffixArgs}

SizeArgs == {0, MAX_FILE_SIZE_MB * 1024 * 1024, MAX_FILE_SIZE_MB * 1024 * 1024 + 1}

ValidatorNext ==
    \/ \E filename \in FilenameArgs : CallValidateFileType(filename)
    \/ \E filename \in FilenameArgs : CallGetFileCategory(filename)
    \/ \E filename \in FilenameArgs, size \in SizeArgs :
          CallValidateUploadedFile([name |-> filename, size |-> size])

ValidatorSpec == Init /\ [][ValidatorNext]_vars

\* The edits of a task: tasks are created with a file type, moved and edited,
\* the fields of an edit being any of the sheet's columns
EditTaskArgs == {td \in TaskDataArgs : "file_type" \in DOMAIN td}

EditUpdatesArgs ==
    { <<<<"Task Name", "Renamed">>, <<"Context Notes", "edited">>>>,
      <<<<"File Type", "video">>>> }

EditNext ==
    \/ \E task_data \in EditTaskArgs : CallCreateTask(task_data, 0)
    \/ \E task_id \in TaskIdArgs, new_status \in {"In Stage", "Done"} :
          Adjacent(task_id) /\ CallUpdateTaskStatus(task_id, new_status, 0)
    \/ \E task_id \in TaskIdArgs, updates \in EditUpdatesArgs, failAt \in 0..1 :
          Adjacent(task_id) /\ CallUpdateTask(task_id, updates, failAt)

EditSpec == Init /\ [][EditNext]_vars

\* Two sessions that create tasks at the same time
WriterTaskArgs == {td \in TaskDataArgs : "context_notes" \in DOMAIN td}

ConcurrentNext ==
    \/ \E w \in Writers, task_data \in WriterTaskArgs : WriterRead(w, task_data)
    \/ \E w \in Writers : WriterAppend(w)

ConcurrentSpec == Init /\ [][ConcurrentNext]_vars

\* The folders of the uploads
DriveDates == {<<"2024", "01">>, <<"2024", "02">>, <<"2025", "01">>}

DriveCategories == {"video", "document"}

\* the requests one organize_by_date call can make, plus none failing
DriveFailArgs == 0..6

DriveNext ==
    \E now \in DriveDates, file_category \in DriveCategories, failAt \in DriveFailArgs :
        CallOrganizeByDate(now, file_category, failAt)

DriveSpec == Init /\ [][DriveNext]_vars

\* The workflow of a task: tasks are created and moved between statuses
WorkflowTaskArgs == {td \in TaskDataArgs : Get(td, "status", "In Review") \in Range(TASK_STATUSES)}

WorkflowStatusArgs == Range(TASK_STATUSES) \cup {"Blocked"}

WorkflowNext ==
    \/ \E task_data \in WorkflowTaskArgs, failAt \in 0..1 :
          CallCreateTask(task_data, failAt)
    \/ \E task_id \in TaskIdArgs, new_status \in WorkflowStatusArgs, failAt \in 0..1 :
          Adjacent(task_id) /\ CallUpdateTaskStatus(task_id, new_status, failAt)

WorkflowSpec == Init /\ [][WorkflowNext]_vars

----------------------------------------------------------------------------
(* The intake pages: Upload and Quick Notes *)

FileArgs ==
    { [name |-> <<"bug", ".mp4">>, size |-> 5 * 1024 * 1024],
      [name |-> <<"shot", ".PNG">>, size |-> MAX_FILE_SIZE_MB * 1024 * 1024],
      [name |-> <<"tool", ".EXE">>, size |-> 1024],
      [name |-> <<"data", ".csv">>, size |-> MAX_FILE_SIZE_MB * 1024 * 1024 + 1] }

AiArgs == {JsonText, PlainText, "model_raises", "file_raises"}

NoteAiArgs == {"improved note", "model_raises"}

IntakeNext ==
    \/ \E f \in FileArgs, notes \in {"", "repro on mobile"}, clicked, uploadFails \in BOOLEAN,
          ai \in AiArgs, failAt \in FailArgs :
          UploadPage(f, notes, clicked, uploadFails, ai, failAt)
    \/ \E title \in {"", "Idea"}, status \in {"In Review", "Done"},
          content \in {"", "call the vendor"}, enhance \in BOOLEAN,
          ai \in NoteAiArgs, failAt \in FailArgs :
          NotesPage(title, status, content, enhance, ai, failAt)

IntakeSpec == Init /\ [][IntakeNext]_vars

----------------------------------------------------------------------------
(* The Sprint Board with the cached read, beside the intake pages *)

BoardStatusArgs == {"In Stage", "Done"}

BoardNext ==
    \/ Tick
    \/ \E readFails \in BOOLEAN : BoardLoad(readFails)
    \/ \E i \in DOMAIN board, new_status \in BoardStatusArgs, readFails \in BOOLEAN,
          failAt \in 0..1 :
          BoardChangeStatus(i, new_status, readFails, failAt)
    \/ \E i \in DOMAIN board, readFails \in BOOLEAN, failAt \in FailArgs :
          BoardSaveEdits(i, "Renamed", "edited", readFails, failAt)
    \/ /\ Len(sheet) - 1 < MaxBoardTasks
       /\ UploadPage([name |-> <<"bug", ".mp4">>, size |-> 1024], "", TRUE, FALSE, JsonText, 0)
    \/ /\ Len(sheet) - 1 < MaxBoardTasks
       /\ NotesPage("Idea", "Done", "call the vendor", FALSE, "", 0)

BoardSpec == Init /\ [][BoardNext]_vars

----------------------------------------------------------------------------
(* The analysis of an uploaded file, over the model's answers *)

ResponseTexts ==
    {JsonText, FencedJson, BareFencedJson, PaddedJson,
     PlainText, FencedPlain, TrailingProse, ""}

AnalysisFiles ==
    { [name |-> <<"bug", ".mp4">>, size |-> 5 * 1024 * 1024],
      [name |-> <<"shot", ".PNG">>, size |-> 1024] }

AnalysisNext ==
    \E f \in AnalysisFiles, text \in ResponseTexts \cup {"model_raises"}, failAt \in 0..1 :
        UploadPage(f, "", TRUE, FALSE, text, failAt)

AnalysisSpec == Init /\ [][AnalysisNext]_vars

\* The analysis of videos and documents, request by request
JobCategories == {"video", "document"}

UploadStates == {"PROCESSING", "ACTIVE"}

IngestStates == {"ACTIVE", "FAILED"}

JobCall ==
    \/ \E fails \in BOOLEAN, state \in UploadStates : UploadToModel(fails, state)
    \/ \E fails \in BOOLEAN : PollFile(fails)
    \/ \E ai \in ResponseTexts \cup {"model_raises"} : GenerateContent(ai)

JobNext ==
    \/ \E file_category \in JobCategories : StageTempFile(file_category)
    \/ \E state \in IngestStates : RemoteIngest(state)
    \/ JobCall
    \/ JobReturn

JobSpec == Init /\ [][JobNext]_vars

\* the call runs on once started, and the file service ends every ingestion
JobLiveSpec ==
    /\ Init /\ [][JobNext]_vars
    /\ WF_vars(JobCall)
    /\ WF_vars(\E state \in IngestStates : RemoteIngest(state))

----------------------------------------------------------------------------
(* The Generate page over a store filled from Quick Notes *)

GenerateTabs == {"test_cases", "requirement_doc", "scrum_email"}

\* st.multiselect over In Review, In Progress, Done
IncludeFilterArgs == {{"Done"}, {"In Review", "In Progress", "Done"}, {}}

\* weeks that hold the upload date of the notes, and one that does not
WeekArgs ==
    { <<<<2024, 1, 29, 0, 0, 0>>, <<2024, 2, 4, 23, 59, 59>>>>,
      <<<<2024, 1, 1, 0, 0, 0>>, <<2024, 1, 7, 23, 59, 59>>>> }

GenerateAiArgs == {"generated text", "model_raises"}

GenerateNext ==
    \/ \E title \in {"", "Idea"}, status \in {"In Review", "Done"} :
          NotesPage(title, status, "call the vendor", FALSE, "", 0)
    \/ \E tab \in GenerateTabs, include_filter \in IncludeFilterArgs, week \in WeekArgs,
          ai \in GenerateAiArgs, readFails \in BOOLEAN :
          GeneratePage(tab, include_filter, week[1], week[2], ai, readFails)
    \/ \E readFails \in BOOLEAN, ai \in GenerateAiArgs :
          CallGenerateTestCases(WithStatusIn(get_all_tasks(sheet, readFails), {"Done"}), ai)

GenerateSpec == Init /\ [][GenerateNext]_vars

\* The pages as a browser session reaches them: the Sprint Board calls
\* require_auth first, the Upload, Quick Notes and Generate pages do not
PasswordArgs == {"[the password]", "987654321", "letmein", ""}

AuthNext ==
    \/ \E password \in PasswordArgs : LoginForm(password)
    \/ /\ require_auth(session)
       /\ \E readFails \in BOOLEAN : BoardLoad(readFails)
    \/ /\ require_auth(session)
       /\ \E i \in DOMAIN board, new_status \in BoardStatusArgs :
             BoardChangeStatus(i, new_status, FALSE, 0)
    \/ /\ Len(sheet) - 1 < MaxBoardTasks
       /\ \E f \in FileArgs, ai \in {JsonText, "model_raises"} :
             UploadPage(f, "", TRUE, FALSE, ai, 0)
    \/ /\ Len(sheet) - 1 < MaxBoardTasks
       /\ \E enhance \in BOOLEAN :
             NotesPage("Idea", "Done", "call the vendor", enhance, "improved note", 0)
    \/ \E tab \in GenerateTabs, week \in WeekArgs, ai \in GenerateAiArgs :
          GeneratePage(tab, {"Done"}, week[1], week[2], ai, FALSE)

AuthSpec == Init /\ [][AuthNext]_vars

----------------------------------------------------------------------------
(* The filtered reads over stores with several statuses and dates *)

QueryTaskArgs ==
    { ("status" :> "Done") @@ ("upload_date" :> "2024-01-15 10:00:00"),
      ("status" :> "In Review") @@ ("upload_date" :> "2024-01-31 23:59:59"),
      ("status" :> "Blocked") @@ ("upload_date" :> "2024-13-40 00:00:00"),
      ("status" :> "Done") @@ ("upload_date" :> "2024-02-30 08:00:00"),
      ("status" :> "In Stage") @@ ("upload_date" :> ""),
      ("task_name" :> "Login bug") @@ ("upload_date" :> "15/01/2024") }

\* a range whose two ends are upload dates of the store, a whole year, and a
\* range that ends before it starts
QueryRangeArgs ==
    { <<<<2024, 1, 15, 10, 0, 0>>, <<2024, 1, 31, 23, 59, 59>>>>,
      <<<<2024, 1, 1, 0, 0, 0>>, <<2024, 12, 31, 23, 59, 59>>>>,
      <<<<2024, 2, 1, 0, 0, 0>>, <<2024, 1, 1, 0, 0, 0>>>> }

QueryNext ==
    \/ \E task_data \in QueryTaskArgs : CallCreateTask(task_data, 0)
    \/ \E status \in Range(TASK_STATUSES) \cup {"Blocked"}, readFails \in BOOLEAN :
          CallGetTasksByStatus(status, readFails)
    \/ \E range \in QueryRangeArgs, readFails \in BOOLEAN :
          CallGetTasksByDateRange(range[1], range[2], readFails)

QuerySpec == Init /\ [][QueryNext]_vars

----------------------------------------------------------------------------
(* The task rows of the worksheet *)

TaskRows == 2..Len(sheet)

Col(name) == IndexOf(SHEETS_HEADERS, name)

----------------------------------------------------------------------------
(* Claims about the task store *)

\* C1: in every reachable state the Status cell of every task row is one of
\* the five TASK_STATUSES (a call that would store another value fails).
C1_StatusAlwaysInSet ==
    \A r \in TaskRows : sheet[r][Col("Status")] \in Range(TASK_STATUSES)

\* C2: update_task_status with a new_status outside TASK_STATUSES returns
\* False, sends no write to the sheet and leaves the worksheet as it was.
C2_InvalidStatusRejected ==
    [][ (last'.op = "update_task_status" /\ nops' = nops + 1
            /\ last'.new_status \notin Range(TASK_STATUSES))
        => (last'.ret = "False" /\ last'.writes = 0 /\ sheet' = sheet) ]_vars

\* an invalid status was refused for the id of an existing task row
C2_Witness ==
    /\ last.op = "update_task_status"
    /\ last.new_status \notin Range(TASK_STATUSES)
    /\ IsInt(last.task_id) /\ IntOfStr(last.task_id) + 1 \in TaskRows
    /\ last.ret = "False"

\* C3: after a successful create_task(task_data), get_all_tasks() holds
\* exactly one row with the returned id, and its fields are task_data's, in
\* schema order, with Status 'In Review' when task_data gives none.
C3_RoundTrip ==
    (last.op = "create_task" /\ ~last.raised) =>
        LET tasks == get_all_tasks(sheet, FALSE)
            mine  == {i \in DOMAIN tasks : Get(tasks[i], "Task ID", "") = last.ret}
            td    == last.task_data
        IN  /\ Cardinality(mine) = 1
            /\ \A i \in mine :
                  /\ Get(tasks[i], "Task Name", "") = Get(td, "task_name", "Untitled Task")
                  /\ Get(tasks[i], "Upload Date", "") = Get(td, "upload_date", NowStr)
                  /\ Get(tasks[i], "Status", "") = Get(td, "status", "In Review")
                  /\ Get(tasks[i], "File Type", "") = Get(td, "file_type", "")
                  /\ Get(tasks[i], "Evidence Link", "") = Get(td, "evidence_link", "")
                  /\ Get(tasks[i], "AI Summary", "") = Get(td, "ai_summary", "")
                  /\ Get(tasks[i], "Context Notes", "") = Get(td, "context_notes", "")

\* C4: no two task rows ever have the same Task ID, and the Task ID of a row
\* never changes once it is assigned.
C4_IdsUniqueAndStable ==
    [][ /\ \A r1, r2 \in 2..Len(sheet') :
              (sheet'[r1][Col("Task ID")] # ""
                  /\ sheet'[r1][Col("Task ID")] = sheet'[r2][Col("Task ID")]) => r1 = r2
        /\ \A r \in TaskRows :
              sheet[r][Col("Task ID")] # "" =>
                  r <= Len(sheet') /\ sheet'[r][Col("Task ID")] = sheet[r][Col("Task ID")]
      ]_vars

----------------------------------------------------------------------------
(* Claims about the writes to existing rows *)

\* the cell of the grid at row r, column c: "" below the last row
Cell(rows, r, c) == IF r <= Len(rows) THEN rows[r][c] ELSE ""

Columns == 1..Len(SHEETS_HEADERS)

\* the value updates gives to the column c, "none" when it names it not
Named(updates, c) ==
    IF \E n \in DOMAIN updates : updates[n][1] = SHEETS_HEADERS[c]
    THEN (updates[CHOOSE n \in DOMAIN updates : updates[n][1] = SHEETS_HEADERS[c]])[2]
    ELSE "none"

\* C16: update_task(id, updates), for an id whose row is in the grid and with
\* no write request failing, returns True whatever keys updates holds; the
\* cells of the row in the columns named by updates get the given values, and
\* every other cell of the row and of every other row is unchanged.
C16_UpdateTaskFrame ==
    [][ (/\ last'.op = "update_task"
         /\ IsInt(last'.task_id)
         /\ CellInGrid(IntOfStr(last'.task_id) + 1, 1)
         /\ CallUpdateTask(last'.task_id, last'.updates, 0)) =>
            /\ last'.ret = "True"
            /\ \A r \in 1..GridRows, c \in Columns :
                  Cell(sheet', r, c) =
                      IF r = IntOfStr(last'.task_id) + 1 /\ Named(last'.updates, c) # "none"
                      THEN Named(last'.updates, c)
                      ELSE Cell(sheet, r, c) ]_vars

\* an update with a key that names no column renamed an existing task
C16_Witness ==
    /\ last.op = "update_task" /\ last.ret = "True"
    /\ last.updates = <<<<"priority", "high">>, <<"Task Name", "Renamed">>>>
    /\ IsInt(last.task_id) /\ IntOfStr(last.task_id) + 1 \in TaskRows
    /\ sheet[IntOfStr(last.task_id) + 1][Col("Task Name")] = "Renamed"
    /\ sheet[IntOfStr(last.task_id) + 1][Col("Task ID")] = last.task_id

\* C17: the workflow is a free state machine: whatever the status of a task,
\* update_task_status moves it to each of the five statuses (the call returns
\* True and the row's Status is the new one, the rest of the sheet unchanged);
\* in particular a Done task is reopened, no status is terminal.
C17_FreeStateMachine ==
    \A r \in TaskRows, t \in Range(TASK_STATUSES) :
        LET out == update_task_status(sheet, StrOfInt(r - 1), t, 0)
        IN  /\ out.ret = "True"
            /\ Len(out.sheet) = Len(sheet)
            /\ out.sheet[r][Col("Status")] = t
            /\ \A q \in 1..Len(sheet), c \in Columns :
                  (q # r \/ c # Col("Status")) => out.sheet[q][c] = sheet[q][c]

\* the task created Done was moved back to In Review by the one call after
\* its creation
C17_Witness ==
    /\ nops = 2 /\ Len(sheet) = 2
    /\ last.op = "update_task_status" /\ last.ret = "True"
    /\ last.task_id = "1" /\ last.new_status = "In Review"
    /\ sheet[2][Col("Task Name")] = "Release notes"
    /\ sheet[2][Col("Status")] = "In Review"

\* C23: update_task_status(id, S), with S one of the five statuses and id the
\* id that create_task gave to a row, returns True and changes one cell, the
\* Status cell of sheet row id + 1, which is the one row whose Task ID is id;
\* every other cell of every row is unchanged.
C23_StatusWriteFrame ==
    [][ (/\ last'.op = "update_task_status"
         /\ StatusIsValid(last'.new_status)
         /\ \E r \in TaskRows : sheet[r][Col("Task ID")] = last'.task_id
         /\ CallUpdateTaskStatus(last'.task_id, last'.new_status, 0)) =>
            /\ last'.ret = "True"
            /\ \A r \in TaskRows :
                  sheet[r][Col("Task ID")] = last'.task_id <=> r = IntOfStr(last'.task_id) + 1
            /\ \A r \in 1..GridRows, c \in Columns :
                  Cell(sheet', r, c) =
                      IF r = IntOfStr(last'.task_id) + 1 /\ c = Col("Status")
                      THEN last'.new_status
                      ELSE Cell(sheet, r, c) ]_vars

\* the second task created was moved to Done and the first was not
C23_Witness ==
    /\ last.op = "update_task_status" /\ last.ret = "True"
    /\ last.task_id = "2" /\ last.new_status = "Done"
    /\ Len(sheet) = 3
    /\ sheet[3][Col("Task ID")] = "2" /\ sheet[3][Col("Status")] = "Done"
    /\ sheet[2][Col("Task ID")] = "1" /\ sheet[2][Col("Status")] = "In Review"

\* C27: the header row, sheet row 1, equals SHEETS_HEADERS in every reachable
\* state: no create_task, update_task_status or update_task call, whatever
\* its task_id, writes to row 1.
C27_HeaderRowIntact == sheet[1] = SHEETS_HEADERS

\* C28: update_task is all or nothing: a call that returns False because the
\* write of one of several named fields failed has changed no cell.
C28_UpdateAllOrNothing ==
    [][ (last'.op = "update_task" /\ nops' = nops + 1 /\ last'.ret = "False") =>
            sheet' = sheet ]_vars

\* C18: the File Type of a task row is set once by create_task: no call of
\* update_task_status or update_task changes the File Type cell of a row that
\* exists.
C18_FileTypeImmutable ==
    [][ \A r \in TaskRows :
            r <= Len(sheet') =>
                sheet'[r][Col("File Type")] = sheet[r][Col("File Type")] ]_vars

\* the number of task rows: the rows below the header row
TaskCount(rows) == Len(rows) - 1

\* C19: the number of task rows never decreases; a successful create_task adds
\* exactly one row; update_task_status and update_task, with any id, add none.
C19_OnlyCreateAddsRows ==
    [][ /\ TaskCount(sheet') >= TaskCount(sheet)
        /\ (last'.op = "create_task" /\ ~last'.raised) =>
               TaskCount(sheet') = TaskCount(sheet) + 1
        /\ last'.op \in {"update_task_status", "update_task"} =>
               TaskCount(sheet') = TaskCount(sheet) ]_vars

----------------------------------------------------------------------------
(* Claims about the file validators *)

\* the suffixes of the model that are in the accepted list when case is ignored
AcceptedIgnoringCase == ALLOWED_EXTENSIONS \cup {".MP4", ".PNG", ".Pdf"}

\* C20: get_file_category returns one of video, document, spreadsheet, image
\* exactly for the file names that validate_file_type accepts, which are the
\* names whose extension is in the accepted list when case is ignored, and
\* returns unknown for every other name; a file that validate_uploaded_file
\* reports valid has one of the four categories, never unknown.
C20_CategoryMatchesValidation ==
    /\ last.op = "validate_file_type" =>
           (last.ret <=> Suffix(last.filename) \in AcceptedIgnoringCase)
    /\ last.op = "get_file_category" =>
           /\ last.ret \in DOMAIN ALLOWED_FILE_TYPES \cup {"unknown"}
           /\ last.ret \in DOMAIN ALLOWED_FILE_TYPES <=> validate_file_type(last.filename)
           /\ last.ret = "unknown" <=> ~validate_file_type(last.filename)
    /\ (last.op = "validate_uploaded_file" /\ last.ret.is_valid) =>
           /\ last.ret.category \in DOMAIN ALLOWED_FILE_TYPES
           /\ last.ret.category = get_file_category(last.filename)
           /\ validate_file_type(last.filename)

\* a file with its extension in capitals was reported valid, as a video
C20_Witness ==
    /\ last.op = "validate_uploaded_file"
    /\ Suffix(last.filename) = ".MP4"
    /\ last.ret.is_valid
    /\ last.ret.category = "video"

----------------------------------------------------------------------------
(* Claims about the filtered reads *)

\* ret is the rows of all at the indices idx, in the order of all
IsSelection(ret, all, idx) ==
    /\ Len(ret) = Cardinality(idx)
    /\ \A i \in idx : ret[Cardinality({j \in idx : j <= i})] = all[i]

\* C14: get_tasks_by_status(S) returns exactly the rows of get_all_tasks()
\* whose Status is S, in store order; the results for the five statuses share
\* no row and, with the rows whose status is outside the set, they are all the
\* rows of get_all_tasks(), each once.
C14_StatusFilterPartitions ==
    last.op = "get_tasks_by_status" =>
        LET all   == get_all_tasks(sheet, last.read_failed)
            by(s) == {i \in DOMAIN all : Get(all[i], "Status", "None") = s}
            other == {i \in DOMAIN all :
                         Get(all[i], "Status", "None") \notin Range(TASK_STATUSES)}
            res(s) == get_tasks_by_status(sheet, s, last.read_failed)
        IN  /\ IsSelection(last.ret, all, by(last.status))
            /\ \A s \in Range(TASK_STATUSES) : IsSelection(res(s), all, by(s))
            /\ \A s, t \in Range(TASK_STATUSES) :
                  s # t => Range(res(s)) \cap Range(res(t)) = {}
            /\ UNION {Range(res(s)) : s \in Range(TASK_STATUSES)}
                  \cup {all[i] : i \in other} = Range(all)
            /\ \A i \in DOMAIN all :
                  Cardinality({s \in Range(TASK_STATUSES) : all[i] \in Range(res(s))})
                      + (IF i \in other THEN 1 ELSE 0) = 1

\* a query for Done on a store with a Done row and a row of another status
C14_Witness ==
    /\ last.op = "get_tasks_by_status" /\ last.status = "Done" /\ ~last.read_failed
    /\ Len(last.ret) = 1
    /\ Len(sheet) = 3
    /\ sheet[2][Col("Status")] = "Blocked" /\ sheet[3][Col("Status")] = "Done"

\* the upload dates of the model that are dates written in the fixed format
ValidDates == {"2024-01-15 10:00:00", "2024-01-31 23:59:59", "2024-02-01 09:30:00"}

----------------------------------------------------------------------------
(* Claims about the intake pages *)

MaxBytes == MAX_FILE_SIZE_MB * 1024 * 1024

\* C5: in a run of the upload handler whose Drive upload fails, the failure
\* reaches the handler (an error is shown), create_task is not called and no
\* row is added to the worksheet.
C5_NoRowWhenUploadFails ==
    [][ (run'.page = "Upload" /\ run'.drive_fails) =>
            /\ sheet' = sheet
            /\ "sheets.create_task" \notin Range(run'.calls)
            /\ (run'.valid /\ run'.clicked) =>
                  (run'.upload_raised /\ run'.shown = "error") ]_vars

\* an upload failed in a run on a worksheet that already holds a task
C5_Witness ==
    /\ run.page = "Upload" /\ run.valid /\ run.clicked
    /\ run.drive_fails /\ run.upload_raised
    /\ "drive.upload_file" \in Range(run.calls)
    /\ Len(sheet) > 1

\* C6: in a run of the upload handler whose analysis step fails (the model
\* call or the processing of the file raises), the flow aborts: create_task
\* is not called and no row is added.
C6_NoRowWhenAnalysisFails ==
    [][ (run'.page = "Upload" /\ run'.ai \in {"model_raises", "file_raises"}) =>
            /\ sheet' = sheet
            /\ "sheets.create_task" \notin Range(run'.calls) ]_vars

\* C7: in a run of the upload page with a file whose extension is not
\* accepted or whose size is above the maximum, no Drive upload, no model call
\* and no create_task happens, and the worksheet is unchanged.
C7_NoCallWhenInvalid ==
    [][ (run'.page = "Upload"
            /\ (Lower(Suffix(run'.file.name)) \notin ALLOWED_EXTENSIONS
                    \/ run'.file.size > MaxBytes)) =>
            /\ run'.calls = <<>>
            /\ run'.shown = "error"
            /\ sheet' = sheet ]_vars

\* an oversize file of an accepted type was refused
C7_Witness ==
    /\ run.page = "Upload"
    /\ Lower(Suffix(run.file.name)) \in ALLOWED_EXTENSIONS
    /\ run.file.size > MaxBytes
    /\ ~run.valid /\ run.calls = <<>>

\* C8: in a run of the save-note handler with enhancement requested whose
\* model call fails, create_task is still called, with the raw note text as
\* AI Summary and as Context Notes.
C8_NoteStoredWhenEnhancementFails ==
    [][ (run'.page = "Notes" /\ run'.enhance /\ run'.model_raised) =>
            /\ "sheets.create_task" \in Range(run'.calls)
            /\ Get(run'.task_data, "ai_summary", "") = run'.content
            /\ Get(run'.task_data, "context_notes", "") = run'.content ]_vars

----------------------------------------------------------------------------
(* Claims about the analysis engine *)

\* the answers of the model whose content is not JSON
NotJson == {PlainText, FencedPlain, TrailingProse, ""}

\* str() of the fallback result for a raw text
FallbackStr(text) == "{task_name: Untitled Task, summary: " \o text \o ", raw_response: True}"

\* C11: when the model's answer does not decode as JSON once the fence marks
\* around it are removed, the analysis does not raise: it returns the
\* fallback whose summary is the raw answer, flagged as unparsed, and the
\* upload handler calls create_task with it and the row is stored.
C11_FallbackStored ==
    [][ (run'.page = "Upload" /\ run'.ai \in NotJson) =>
            /\ "sheets.create_task" \in Range(run'.calls)
            /\ run'.task_data["task_name"] = "Untitled Task"
            /\ run'.task_data["ai_summary"] = FallbackStr(run'.ai)
            /\ run'.shown = "task created" =>
                  /\ Len(sheet') = Len(sheet) + 1
                  /\ sheet'[Len(sheet')][Col("Task Name")] = "Untitled Task"
                  /\ sheet'[Len(sheet')][Col("AI Summary")] = FallbackStr(run'.ai) ]_vars

\* a fenced answer that is not JSON was stored as a fallback row
C11_Witness ==
    /\ run.page = "Upload" /\ run.ai = FencedPlain /\ run.shown = "task created"
    /\ sheet[Len(sheet)][Col("AI Summary")] = FallbackStr(FencedPlain)

\* the model calls in a list of calls
ModelCalls(calls) == {i \in DOMAIN calls : calls[i] = "model.generate_content"}

\* C12: when the model call fails inside an engine operation, the caller
\* gets a failure outcome, not the outcome of a successful generation, and the
\* model was called at most once by the operation.
C12_ModelFailureSurfaced ==
    [][ (run'.page \in {"Generate", "engine"} /\ run'.model_raised) =>
            /\ run'.shown = "error"
            /\ Cardinality(ModelCalls(run'.calls)) <= 1 ]_vars

\* C13: for each output kind, when the set of task rows to generate from is
\* empty the model is not called and "nothing to generate" is the outcome;
\* so too for a direct generate_test_cases([]).
C13_NoModelCallOnEmptySet ==
    [][ (run'.page \in {"Generate", "engine"} /\ run'.tasks = <<>>) =>
            /\ ModelCalls(run'.calls) = {}
            /\ run'.shown = "nothing to generate" ]_vars

----------------------------------------------------------------------------
(* Claims about the cached read *)

\* C9: every step of the application that changes the worksheet (create_task
\* from Upload and Quick Notes, update_task_status and update_task from the
\* Sprint Board) leaves no live entry in the get_cached_tasks cache, so the
\* next cached read reads the worksheet.
C9_MutationInvalidatesCache ==
    [][ sheet' # sheet => ~CacheLive(cache', clock') ]_vars

\* the status of the task with this id among tasks ("" when it is absent)
StatusIn(tasks, task_id) ==
    IF \E i \in DOMAIN tasks : Get(tasks[i], "Task ID", "") = task_id
    THEN Get(tasks[CHOOSE i \in DOMAIN tasks : Get(tasks[i], "Task ID", "") = task_id],
             "Status", "")
    ELSE ""

\* C10: the get_cached_tasks call that follows a successful
\* update_task_status(id, S) and the clearing of the cache returns status S
\* for id; and no cached list is served once it is CACHE_TTL seconds old.
C10_CoherentAfterUpdate ==
    [][ /\ (run.page = "Board" /\ run.op = "status" /\ run.ret = "True"
                /\ run'.page = "Board" /\ run'.op = "load") =>
              StatusIn(board', run.task_id) = run.new_status
        /\ (clock' = clock /\ run'.page = "Board" /\ run'.op = "load" /\ run'.hit) =>
              clock - cache.at < CACHE_TTL ]_vars

\* the step is a run of the Sprint Board that called the store for a status
\* change or a field edit
BoardWrote(r) == r.page = "Board" /\ r.op \in {"status", "edit"}

\* C21: when the update_task_status or update_task call of a Sprint Board run
\* reports failure, the run shows a failure message, not a success message,
\* and the tasks of the worksheet the board shows are unchanged.
C21_BoardFailureShown ==
    [][ (BoardWrote(run') /\ run'.ret = "False") =>
            /\ run'.shown = "failure"
            /\ sheet' = sheet ]_vars

----------------------------------------------------------------------------
(* Claims about concurrent writers *)

\* C22: with two writers inside create_task at the same time there is an
\* interleaving in which both read the same row count before either appends;
\* whenever that has happened, the two rows appended are distinct rows of the
\* sheet that carry the same Task ID.
C22_SameCountSameId ==
    (/\ \A w \in Writers : writers[w].pc = "idle" /\ writers[w].row # 0
     /\ writers[1].task_id = writers[2].task_id) =>
        /\ writers[1].row # writers[2].row
        /\ sheet[writers[1].row][Col("Task ID")] = StrOfInt(writers[1].task_id)
        /\ sheet[writers[2].row][Col("Task ID")] = sheet[writers[1].row][Col("Task ID")]

\* both writers read the count of the sheet with only the header, then both
\* appended: rows 2 and 3 both have the id 1
C22_Witness ==
    /\ \A w \in Writers : writers[w].pc = "idle" /\ writers[w].task_id = 1
    /\ {writers[1].row, writers[2].row} = {2, 3}
    /\ Len(sheet) = 3
    /\ sheet[2][Col("Task ID")] = "1" /\ sheet[3][Col("Task ID")] = "1"

----------------------------------------------------------------------------
(* Claims about the analysis of videos and documents *)

\* C24: when the analysis of a video or a document has ended, by a result or
\* by a failure of the remote upload, the polling, the generation or the
\* parsing, the staged temporary file is gone.
C24_TempFileReleased == job.pc = "done" => ~job.staged

\* C25: the generation request for a video or a PDF is submitted only after
\* the call has observed the remote file in the ready state, never while the
\* file is processing and never after its ingestion failed.
C25_SubmittedOnlyWhenReady ==
    job.submitted => job.observed = "ACTIVE" /\ job.remote = "ACTIVE"

\* C30: a video analysis that has started ends, with a result or with the
\* error fallback, when the file service ends its ingestion of the file; the
\* polling loop goes on to the generation on the first test that finds a state
\* other than PROCESSING, and while the state read is PROCESSING nothing ends
\* the loop but an exception of get_file.
C30_VideoAnalysisCompletes ==
    /\ (job.category = "video" /\ job.pc \in {"staged", "poll", "generate"})
           ~> (job.pc = "done")
    /\ [][ /\ (job.pc = "poll" /\ job.observed # "PROCESSING" /\ job' # job) =>
                  job'.pc = "generate"
           /\ (job.pc = "poll" /\ job.observed = "PROCESSING" /\ job'.pc # "poll") =>
                  (job'.pc = "done" /\ "error" \in DOMAIN job'.result) ]_vars

\* a video that was uploaded in the PROCESSING state was polled until it was
\* ACTIVE, and its analysis returned the parsed answer
C30_Witness ==
    /\ job.category = "video" /\ job.pc = "done"
    /\ job.polled /\ job.observed = "ACTIVE" /\ job.submitted
    /\ "error" \notin DOMAIN job.result /\ "raw_response" \notin DOMAIN job.result

----------------------------------------------------------------------------
(* Claims about the folders of the Drive *)

\* the id of the folder root/year/month/category, 0 when a level is missing
PathId(folders, now, file_category) ==
    LET y == FindFolder(folders, now[1], root_folder_id)
        m == IF y = 0 THEN 0 ELSE FindFolder(folders, now[2], y)
    IN  IF m = 0 THEN 0 ELSE FindFolder(folders, file_category, m)

NoDuplicateFolders(folders) ==
    \A i, j \in DOMAIN folders :
        (folders[i].name = folders[j].name /\ folders[i].parent = folders[j].parent) => i = j

----------------------------------------------------------------------------
(* Claims about authentication *)

\* C29: no step of a session that has not authenticated changes the task
\* store, uploads a file or calls the model: every page that creates, updates
\* or reads tasks calls require_auth and stops when the session is not
\* authenticated.
C29_NothingBeforeLogin ==
    [][ (\/ sheet' # sheet
         \/ (run' # run /\ "calls" \in DOMAIN run' /\ run'.calls # <<>>)) =>
            is_authenticated(session) ]_vars

====
